---- MODULE Spec2Model ----
(***************************************************************************)
(* Concurrency utilities of package util (src/semantics/semantics_stmt_ddl *)
(* .go, lines 74-260): the resettable Once, the sharded FastPool and the   *)
(* LocklessPool ring.  Every atomic primitive, every lock acquisition and  *)
(* every critical section of the source is one step of one thread; program *)
(* counters are named after the source line the thread is about to run.    *)
(***************************************************************************)
EXTENDS Naturals, Integers, Sequences, FiniteSets

\* ---------------------------------------------------------------- bounds
\* Number of goroutines calling into one object.
NumThreads == 2
\* Total number of Once.Do calls and of Once.Reset calls explored.
MaxDo == 4
MaxResets == 2
\* Nesting of Do calls made from inside the action f.
MaxDepth == 2

\* Total number of LocklessPool.Put and LocklessPool.Get calls explored, by
\* concurrent callers and by a single caller.
MaxRingPuts == 3
MaxRingGets == 3
MaxSeqRingPuts == 4
MaxSeqRingGets == 3
\* Total number of FastPool.Put and FastPool.Get calls explored, by concurrent
\* callers and by a single caller.
MaxPuts == 3
MaxGets == 3
MaxSeqPuts == 4
MaxSeqGets == 4
\* The same for the runs checked for termination under fair scheduling.
MaxLivePuts == 3
MaxLiveGets == 2
\* _POOL_SIZE (line 128, 1024 in the source), scaled so that the pools fill.
POOL_SIZE == 2
\* _MIN_BUCKETS and _MAX_BUCKETS (lines 126-127, 8 and 64 in the source),
\* scaled alike.
MIN_BUCKETS == 2
MAX_BUCKETS == 3

Threads == 1..NumThreads

\* The nil pointer; payloads are the positive numbers.
Nil == 0

\* Payload instances a run of the ring can create: one per call at most.
RingIds == 1..(MaxRingPuts + MaxRingGets + MaxSeqRingPuts + MaxSeqRingGets)

\* Payload instances and list entries a run of the FastPool can create.
FastIds == 1..(MaxPuts + MaxGets + MaxSeqPuts + MaxSeqGets)

\* What a Get can return: a payload, or nil from an entry that holds none.
FastVals == FastIds \cup {Nil}

Entries == 1..(MaxPuts + MaxSeqPuts)

\* runtime.NumCPU() of the machines considered.
CPUs == 1..(MAX_BUCKETS + 1)

\* The poolLists of a FastPool: p.pool[i] and p.free[i].
PoolList(i) == i

FreeList(i) == MAX_BUCKETS + i

Lists == 0..(2 * MAX_BUCKETS - 1)

\* atomic.AddUint32 / atomic.AddInt32: the new value.  The counters are 32
\* bits wide; the bounds on the number of calls keep every one of them below
\* 2^31, so the add is modelled without its wrap.
AddUint32(x, d) == x + d

AddInt32(x, d) == x + d

\* ------------------------------------------------------------------ state
VARIABLES
    done,       \* Once.done
    ostack,     \* per thread: the stack of Do frames, each a program counter
    doCalls,    \* history: Do calls started since construction / the last Reset
    doRets,     \* history: Do calls returned since then
    fCalls,     \* history: invocations of the action since then
    fRets,      \* history: returns of the action since then
    clean,      \* history: the last Reset (or construction) found no Do in flight
    resets,     \* history: number of Reset calls
    rGetNext,   \* LocklessPool.getNext
    rPutNext,   \* LocklessPool.putNext
    slots,      \* LocklessPool.pool
    rpc,        \* per thread: program counter inside LocklessPool.Get / Put
    rl,         \* per thread: the local l
    re,         \* per thread: the local e (Get) or the argument s (Put); the
                \* locals are cleared when the call returns
    rHeld,      \* history: per payload, the callers holding it
    rNextId,    \* history: payload instances created so far
    rPuts,      \* history: Put calls started
    rGets,      \* history: Get calls started
    rRecycled,  \* history: Get calls that returned a pooled payload
    getNext,    \* FastPool.getNext
    putNext,    \* FastPool.putNext
    useCount,   \* FastPool.useCount
    freeCount,  \* FastPool.freeCount
    buckets,    \* FastPool.buckets
    head,       \* per poolList: head (an entry or Nil)
    tail,       \* per poolList: tail
    lock,       \* per poolList: the thread holding its Mutex, or 0
    entry,      \* per poolEntry: entry (a payload or Nil)
    next,       \* per poolEntry: next
    nEntries,   \* poolEntry structures allocated so far
    fpc,        \* per thread: program counter inside FastPool.Get / Put
    lpc,        \* per thread: program counter inside poolList.Get / Put
    fl,         \* per thread: the local l
    fe,         \* per thread: the local e
    fs,         \* per thread: the argument s (Put) or the local rv (Get)
    fHeld,      \* history: per payload, the callers holding it
    fNextId,    \* history: payload instances created so far
    fPuts,      \* history: Put calls started
    fGets,      \* history: Get calls started
    fPeakPuts,  \* history: the most Put calls ever in flight together
    hist        \* history: the calls of a single-threaded run, in order

onceVars == <<done, ostack, doCalls, doRets, fCalls, fRets, clean, resets>>

ringVars == <<rGetNext, rPutNext, slots, rpc, rl, re,
              rHeld, rNextId, rPuts, rGets, rRecycled>>

fastVars == <<getNext, putNext, useCount, freeCount, buckets, head, tail, lock,
              entry, next, nEntries, fpc, lpc, fl, fe, fs,
              fHeld, fNextId, fPuts, fGets, fPeakPuts>>

vars == <<onceVars, ringVars, fastVars, hist>>

\* ------------------------------------------------------------------- Once
Top(t) == IF ostack[t] = <<>> THEN "idle" ELSE ostack[t][Len(ostack[t])]

Pop(t) == [ostack EXCEPT ![t] = SubSeq(@, 1, Len(@) - 1)]

Goto(t, pc) == [ostack EXCEPT ![t] = [@ EXCEPT ![Len(@)] = pc]]

NoDoInFlight == \A t \in Threads : ostack[t] = <<>>

OnceInit ==
    /\ done = 0
    /\ ostack = [t \in Threads |-> <<>>]
    /\ doCalls = 0
    /\ doRets = 0
    /\ fCalls = 0
    /\ fRets = 0
    /\ clean = TRUE
    /\ resets = 0

\* A thread enters Do: from outside, or from inside the running action f.
DoCall(t) ==
    /\ doCalls < MaxDo
    /\ Len(ostack[t]) < MaxDepth
    /\ Top(t) \in {"idle", "inF"}
    /\ ostack' = [ostack EXCEPT ![t] = Append(@, "L112")]
    /\ doCalls' = doCalls + 1
    /\ UNCHANGED <<done, doRets, fCalls, fRets, clean, resets>>

\* A Do that, like the one its doc comment (lines 104-105) describes, lets
\* no caller go on while the action is running.
DoWaitsForAction == fRets < fCalls

\* lines 111-120: Do takes no lock and waits for nothing.
DoWaits == FALSE

\* line 112: the fast path returns when done is already set.
DoLoad(t) ==
    /\ ~DoWaits
    /\ Top(t) = "L112"
    /\ IF done > 0
         THEN /\ ostack' = Pop(t)
              /\ doRets' = doRets + 1
         ELSE /\ ostack' = Goto(t, "L117")
              /\ doRets' = doRets
    /\ UNCHANGED <<done, doCalls, fCalls, fRets, clean, resets>>

\* A Do whose slow path takes any nonzero count for a win.
WinsAddAnyCount(v) == v >= 1

\* The test of line 117 on the value AddUint32 returned.
WinsAdd(v) == v = 1

\* line 117: the slow path; the caller whose increment yields 1 runs f.
DoAdd(t) ==
    /\ Top(t) = "L117"
    /\ done' = AddUint32(done, 1)
    /\ IF WinsAdd(done')
         THEN /\ ostack' = Goto(t, "L118")
              /\ doRets' = doRets
         ELSE /\ ostack' = Pop(t)
              /\ doRets' = doRets + 1
    /\ UNCHANGED <<doCalls, fCalls, fRets, clean, resets>>

\* line 118: f is invoked.
DoInvoke(t) ==
    /\ Top(t) = "L118"
    /\ ostack' = Goto(t, "inF")
    /\ fCalls' = fCalls + 1
    /\ UNCHANGED <<done, doCalls, doRets, fRets, clean, resets>>

\* lines 118-120: f returns, and the Do that called it returns.
DoReturn(t) ==
    /\ Top(t) = "inF"
    /\ ostack' = Pop(t)
    /\ fRets' = fRets + 1
    /\ doRets' = doRets + 1
    /\ UNCHANGED <<done, doCalls, fCalls, clean, resets>>

\* lines 122-124: Reset stores 0, whatever Do calls are in flight.
Reset ==
    /\ resets < MaxResets
    /\ done' = 0
    /\ resets' = resets + 1
    /\ clean' = NoDoInFlight
    /\ doCalls' = 0
    /\ doRets' = 0
    /\ fCalls' = 0
    /\ fRets' = 0
    /\ UNCHANGED ostack

\* ----------------------------------------------------------- LocklessPool
\* lines 235-238: NewLocklessPool zeroes the cursors and the slots.
RingInit ==
    /\ rGetNext = 0
    /\ rPutNext = 0
    /\ slots = [i \in 0..(POOL_SIZE - 1) |-> Nil]
    /\ rpc = [t \in Threads |-> "idle"]
    /\ rl = [t \in Threads |-> 0]
    /\ re = [t \in Threads |-> Nil]
    /\ rHeld = [p \in RingIds |-> 0]
    /\ rNextId = 0
    /\ rPuts = 0
    /\ rGets = 0
    /\ rRecycled = 0

AllSlotsEmpty == \A i \in DOMAIN slots : slots[i] = Nil

\* A Get that reads the slot and leaves its content in place.
LoadPointerOnly(ss, l) == ss

\* atomic.SwapPointer(&p.pool[l], nil): the slots after the swap; the value
\* returned is the slot's content before it.
SwapPointerNil(ss, l) == [ss EXCEPT ![l] = Nil]

\* A Get that moves to the next slot also when the slot was empty.
CursorAdvancedOnMiss(g) == AddUint32(g, 1)

\* lines 245-246: the fetch cursor after a Get found its slot empty.
CursorAfterMiss(g) == g

\* A Put that stores at the slot of the cursor after its increment.
PutSlotAfterAdd(v) == v % POOL_SIZE

\* line 258: the slot of a Put, from the value AddUint32 returned.
PutSlot(v) == (v - 1) % POOL_SIZE

\* A caller starts Get.
RingGetCall(t) ==
    /\ rpc[t] = "idle"
    /\ rpc' = [rpc EXCEPT ![t] = "L241"]
    /\ rGets' = rGets + 1
    /\ UNCHANGED <<rGetNext, rPutNext, slots, rl, re, rHeld, rNextId, rPuts, rRecycled>>

\* line 241: l := LoadUint32(&getNext) % _POOL_SIZE
RingGetLoad(t) ==
    /\ rpc[t] = "L241"
    /\ rl' = [rl EXCEPT ![t] = rGetNext % POOL_SIZE]
    /\ rpc' = [rpc EXCEPT ![t] = "L242"]
    /\ UNCHANGED <<rGetNext, rPutNext, slots, re, rHeld, rNextId, rPuts, rGets, rRecycled>>

\* lines 242-245: e := SwapPointer(&pool[l], nil), and the test of e.
RingGetSwap(t) ==
    /\ rpc[t] = "L242"
    /\ re' = [re EXCEPT ![t] = slots[rl[t]]]
    /\ slots' = SwapPointerNil(slots, rl[t])
    /\ rpc' = [rpc EXCEPT ![t] = IF slots[rl[t]] = Nil THEN "L246" ELSE "L250"]
    /\ UNCHANGED <<rGetNext, rPutNext, rl, rHeld, rNextId, rPuts, rGets, rRecycled>>

\* line 246: return p.f(), a fresh instance.
RingGetFactory(t) ==
    /\ rpc[t] = "L246"
    /\ rGetNext' = CursorAfterMiss(rGetNext)
    /\ rNextId' = rNextId + 1
    /\ rHeld' = [rHeld EXCEPT ![rNextId + 1] = @ + 1]
    /\ rpc' = [rpc EXCEPT ![t] = "idle"]
    /\ rl' = [rl EXCEPT ![t] = 0]
    /\ re' = [re EXCEPT ![t] = Nil]
    /\ UNCHANGED <<rPutNext, slots, rPuts, rGets, rRecycled>>

\* lines 250-251: AddUint32(&getNext, 1); return e
RingGetAdvance(t) ==
    /\ rpc[t] = "L250"
    /\ rGetNext' = AddUint32(rGetNext, 1)
    /\ rHeld' = [rHeld EXCEPT ![re[t]] = @ + 1]
    /\ rRecycled' = rRecycled + 1
    /\ rpc' = [rpc EXCEPT ![t] = "idle"]
    /\ rl' = [rl EXCEPT ![t] = 0]
    /\ re' = [re EXCEPT ![t] = Nil]
    /\ UNCHANGED <<rPutNext, slots, rNextId, rPuts, rGets>>

\* A caller starts Put(s) with a payload it holds.
RingPutCallHeld(t) ==
    /\ rpc[t] = "idle"
    /\ \E s \in RingIds :
          /\ rHeld[s] > 0
          /\ re' = [re EXCEPT ![t] = s]
          /\ rHeld' = [rHeld EXCEPT ![s] = @ - 1]
    /\ rpc' = [rpc EXCEPT ![t] = "L258"]
    /\ rPuts' = rPuts + 1
    /\ UNCHANGED <<rGetNext, rPutNext, slots, rl, rNextId, rGets, rRecycled>>

\* A caller starts Put(s) with an instance it has made itself.
RingPutCallNew(t) ==
    /\ rpc[t] = "idle"
    /\ rNextId' = rNextId + 1
    /\ re' = [re EXCEPT ![t] = rNextId + 1]
    /\ rpc' = [rpc EXCEPT ![t] = "L258"]
    /\ rPuts' = rPuts + 1
    /\ UNCHANGED <<rGetNext, rPutNext, slots, rl, rHeld, rGets, rRecycled>>

\* line 258: l := (AddUint32(&putNext, 1) - 1) % _POOL_SIZE
RingPutAdd(t) ==
    /\ rpc[t] = "L258"
    /\ rPutNext' = AddUint32(rPutNext, 1)
    /\ rl' = [rl EXCEPT ![t] = PutSlot(rPutNext')]
    /\ rpc' = [rpc EXCEPT ![t] = "L259"]
    /\ UNCHANGED <<rGetNext, slots, re, rHeld, rNextId, rPuts, rGets, rRecycled>>

\* line 259: StorePointer(&pool[l], s)
RingPutStore(t) ==
    /\ rpc[t] = "L259"
    /\ slots' = [slots EXCEPT ![rl[t]] = re[t]]
    /\ rpc' = [rpc EXCEPT ![t] = "idle"]
    /\ rl' = [rl EXCEPT ![t] = 0]
    /\ re' = [re EXCEPT ![t] = Nil]
    /\ UNCHANGED <<rGetNext, rPutNext, rHeld, rNextId, rPuts, rGets, rRecycled>>

\* --------------------------------------------------------------- FastPool
\* lines 154-159: the shard count, runtime.NumCPU() clamped.
BucketsFor(cpu) ==
    IF cpu > MAX_BUCKETS THEN MAX_BUCKETS
    ELSE IF cpu < MIN_BUCKETS THEN MIN_BUCKETS
    ELSE cpu

\* lines 152-163: NewFastPool.
FastInit ==
    /\ getNext = 0
    /\ putNext = 0
    /\ useCount = 0
    /\ freeCount = 0
    /\ buckets \in {BucketsFor(cpu) : cpu \in CPUs}
    /\ head = [k \in Lists |-> Nil]
    /\ tail = [k \in Lists |-> Nil]
    /\ lock = [k \in Lists |-> 0]
    /\ entry = [e \in Entries |-> Nil]
    /\ next = [e \in Entries |-> Nil]
    /\ nEntries = 0
    /\ fpc = [t \in Threads |-> "idle"]
    /\ lpc = [t \in Threads |-> "none"]
    /\ fl = [t \in Threads |-> 0]
    /\ fe = [t \in Threads |-> Nil]
    /\ fs = [t \in Threads |-> Nil]
    /\ fHeld = [p \in FastVals |-> 0]
    /\ fNextId = 0
    /\ fPuts = 0
    /\ fGets = 0
    /\ fPeakPuts = 0

fastCounters == <<getNext, putNext, useCount, freeCount>>

fastLists == <<head, tail, lock, entry, next, nEntries>>

fastHistory == <<fHeld, fNextId, fPuts, fGets, fPeakPuts>>

\* The entries linked from e, in order.
RECURSIVE Chain(_, _)
Chain(e, fuel) ==
    IF e = Nil \/ fuel = 0 THEN <<>> ELSE <<e>> \o Chain(next[e], fuel - 1)

ListEntries(k) == Chain(head[k], Cardinality(Entries) + 1)

RECURSIVE ActiveUpTo(_)
ActiveUpTo(n) ==
    IF n = 0 THEN 0 ELSE Len(ListEntries(PoolList(n - 1))) + ActiveUpTo(n - 1)

\* The number of entries on the active lists p.pool[0 .. buckets-1].
TrueCount == ActiveUpTo(buckets)

PutPcs == {"L188", "L189", "L193", "L196", "L197"}

GetPcs == {"L167", "L169", "L170", "L172", "L174", "L176", "L178", "L179", "L181"}

PutsInFlight == Cardinality({t \in Threads : fpc[t] \in PutPcs})

FastQuiescent == \A t \in Threads : fpc[t] = "idle"

\* The poolList a thread's poolList.Get / poolList.Put call works on:
\* p.pool[l] at lines 170 and 196, p.free[l] at lines 179 and 189.
CurList(t) == IF fpc[t] \in {"L170", "L196"} THEN PoolList(fl[t]) ELSE FreeList(fl[t])

\* A Mutex that lets everyone in.
MutexIgnored(k) == TRUE

\* sync.Mutex: Lock returns only when no one holds the lock.
MutexFree(k) == lock[k] = 0

\* A poolList whose Unlock is left out.
UnlockForgotten(k) == lock

\* l.Unlock() (lines 207, 212, 225): the locks after it.
Unlock(k) == [lock EXCEPT ![k] = 0]

\* The call returns to its caller: the locals are gone.
FastReturn(t) ==
    /\ fpc' = [fpc EXCEPT ![t] = "idle"]
    /\ lpc' = [lpc EXCEPT ![t] = "none"]
    /\ fl' = [fl EXCEPT ![t] = 0]
    /\ fe' = [fe EXCEPT ![t] = Nil]
    /\ fs' = [fs EXCEPT ![t] = Nil]

\* p.f(): a fresh instance, handed to the caller.
FastFactoryReturn(t) ==
    /\ fNextId' = fNextId + 1
    /\ fHeld' = [fHeld EXCEPT ![fNextId + 1] = @ + 1]
    /\ FastReturn(t)
    /\ UNCHANGED <<fPuts, fGets, fPeakPuts>>

\* ---- poolList.Get, lines 200-215
\* What the unlocked read of l.head at line 201 can find (TRUE: nil).  The
\* read races with the holder of the lock: it sees head as it is, or as the
\* holder's critical section leaves it.
ObservedNil(t, k) ==
    {head[k] = Nil} \cup
    (IF lock[k] \in Threads \ {t}
       THEN IF lpc[lock[k]] = "L219" THEN {FALSE}
            ELSE IF lpc[lock[k]] = "L211" THEN {next[fe[lock[k]]] = Nil}
            ELSE {}
       ELSE {})

\* poolList.Get returns rv to its caller.  FastPool.Get (line 170) tests it
\* at line 171.  FastPool.Put (line 189) tests it at line 190 and, given nil,
\* makes a new entry, stores s in it and calls p.pool[l].Put (lines 191,
\* 195, 196).
ListGetReturns(t, rv) ==
    IF fpc[t] = "L170"
      THEN /\ fe' = [fe EXCEPT ![t] = rv]
           /\ lpc' = [lpc EXCEPT ![t] = "none"]
           /\ fpc' = [fpc EXCEPT ![t] = IF rv = Nil THEN "L172" ELSE "L174"]
           /\ UNCHANGED <<entry, nEntries>>
      ELSE IF rv = Nil
        THEN /\ nEntries' = nEntries + 1
             /\ fe' = [fe EXCEPT ![t] = nEntries + 1]
             /\ entry' = [entry EXCEPT ![nEntries + 1] = fs[t]]
             /\ fpc' = [fpc EXCEPT ![t] = "L196"]
             /\ lpc' = [lpc EXCEPT ![t] = "L218"]
        ELSE /\ fe' = [fe EXCEPT ![t] = rv]
             /\ lpc' = [lpc EXCEPT ![t] = "none"]
             /\ fpc' = [fpc EXCEPT ![t] = "L193"]
             /\ UNCHANGED <<entry, nEntries>>

\* lines 201-203: the unlocked test of l.head.
ListGetPeek(t) ==
    /\ lpc[t] = "L201"
    /\ \E seenNil \in ObservedNil(t, CurList(t)) :
         IF seenNil
           THEN ListGetReturns(t, Nil)
           ELSE /\ lpc' = [lpc EXCEPT ![t] = "L205"]
                /\ UNCHANGED <<fpc, fe, entry, nEntries>>
    /\ UNCHANGED <<fastCounters, buckets, head, tail, lock, next, fl, fs, fastHistory>>

\* line 205: l.Lock()
ListGetLock(t) ==
    /\ lpc[t] = "L205"
    /\ MutexFree(CurList(t))
    /\ lock' = [lock EXCEPT ![CurList(t)] = t]
    /\ lpc' = [lpc EXCEPT ![t] = "L206"]
    /\ UNCHANGED <<fastCounters, buckets, head, tail, entry, next, nEntries,
                   fpc, fl, fe, fs, fastHistory>>

\* A poolList.Get that takes the entry put last.
LastEntry(k) == tail[k]

\* line 210: rv := l.head
FirstEntry(k) == head[k]

\* lines 206-210: the test of l.head under the lock, and rv := l.head.
ListGetHead(t) ==
    /\ lpc[t] = "L206"
    /\ IF head[CurList(t)] = Nil
         THEN /\ lock' = Unlock(CurList(t))
              /\ ListGetReturns(t, Nil)
         ELSE /\ fe' = [fe EXCEPT ![t] = FirstEntry(CurList(t))]
              /\ lpc' = [lpc EXCEPT ![t] = "L211"]
              /\ UNCHANGED <<lock, fpc, entry, nEntries>>
    /\ UNCHANGED <<fastCounters, buckets, head, tail, next, fl, fs, fastHistory>>

\* lines 211-212: l.head = rv.next; l.Unlock()
ListGetUnlink(t) ==
    /\ lpc[t] = "L211"
    /\ head' = [head EXCEPT ![CurList(t)] = next[fe[t]]]
    /\ lock' = Unlock(CurList(t))
    /\ lpc' = [lpc EXCEPT ![t] = "L213"]
    /\ UNCHANGED <<fastCounters, buckets, tail, entry, next, nEntries,
                   fpc, fl, fe, fs, fastHistory>>

\* lines 213-214: rv.next = nil; return rv
ListGetDetach(t) ==
    /\ lpc[t] = "L213"
    /\ next' = [next EXCEPT ![fe[t]] = Nil]
    /\ ListGetReturns(t, fe[t])
    /\ UNCHANGED <<fastCounters, buckets, head, tail, lock, fl, fs, fastHistory>>

\* ---- poolList.Put, lines 217-226
\* line 218: l.Lock()
ListPutLock(t) ==
    /\ lpc[t] = "L218"
    /\ MutexFree(CurList(t))
    /\ lock' = [lock EXCEPT ![CurList(t)] = t]
    /\ lpc' = [lpc EXCEPT ![t] = "L219"]
    /\ UNCHANGED <<fastCounters, buckets, head, tail, entry, next, nEntries,
                   fpc, fl, fe, fs, fastHistory>>

\* lines 219-225: the entry is linked at the tail, and the lock released;
\* FastPool.Get goes on to line 181, FastPool.Put to line 197.
ListPutLink(t) ==
    /\ lpc[t] = "L219"
    /\ IF head[CurList(t)] = Nil
         THEN /\ head' = [head EXCEPT ![CurList(t)] = fe[t]]
              /\ next' = next
         ELSE /\ next' = [next EXCEPT ![tail[CurList(t)]] = fe[t]]
              /\ head' = head
    /\ tail' = [tail EXCEPT ![CurList(t)] = fe[t]]
    /\ lock' = Unlock(CurList(t))
    /\ lpc' = [lpc EXCEPT ![t] = "none"]
    /\ fpc' = [fpc EXCEPT ![t] = IF fpc[t] = "L179" THEN "L181" ELSE "L197"]
    /\ UNCHANGED <<fastCounters, buckets, entry, nEntries, fl, fe, fs, fastHistory>>

\* ---- FastPool.Get, lines 165-182
\* A Get that takes its shard index before it looks at useCount.
CursorAdvancedOnEmpty(g) == AddUint32(g, 1)

\* lines 166-167: the Get cursor when useCount is read as 0.
CursorOnEmpty(g) == g

\* lines 165-166: a caller enters Get; LoadInt32(&p.useCount) == 0
FastGetLoadUse(t) ==
    /\ fpc[t] = "idle"
    /\ fGets' = fGets + 1
    /\ IF useCount = 0
         THEN /\ fpc' = [fpc EXCEPT ![t] = "L167"]
              /\ getNext' = CursorOnEmpty(getNext)
         ELSE /\ fpc' = [fpc EXCEPT ![t] = "L169"]
              /\ getNext' = getNext
    /\ UNCHANGED <<putNext, useCount, freeCount, buckets, fastLists,
                   lpc, fl, fe, fs, fHeld, fNextId, fPuts, fPeakPuts>>

\* line 167: return p.f()
FastGetFactoryEmpty(t) ==
    /\ fpc[t] = "L167"
    /\ FastFactoryReturn(t)
    /\ UNCHANGED <<fastCounters, buckets, fastLists>>

\* lines 169-170: l := AddUint32(&p.getNext, 1) % p.buckets; p.pool[l].Get()
FastGetAdd(t) ==
    /\ fpc[t] = "L169"
    /\ getNext' = AddUint32(getNext, 1)
    /\ fl' = [fl EXCEPT ![t] = getNext' % buckets]
    /\ fpc' = [fpc EXCEPT ![t] = "L170"]
    /\ lpc' = [lpc EXCEPT ![t] = "L201"]
    /\ UNCHANGED <<putNext, useCount, freeCount, buckets, fastLists, fe, fs, fastHistory>>

\* A Get that counts a payload out although its shard gave none.
UseCountDroppedOnMiss(u) == AddInt32(u, -1)

\* lines 171-173: useCount when the shard's list was empty.
UseCountOnMiss(u) == u

\* line 172: return p.f()
FastGetFactoryMiss(t) ==
    /\ fpc[t] = "L172"
    /\ useCount' = UseCountOnMiss(useCount)
    /\ FastFactoryReturn(t)
    /\ UNCHANGED <<getNext, putNext, freeCount, buckets, fastLists>>

\* lines 174-175: AddInt32(&p.useCount, -1); rv := e.entry
FastGetDec(t) ==
    /\ fpc[t] = "L174"
    /\ useCount' = AddInt32(useCount, -1)
    /\ fs' = [fs EXCEPT ![t] = entry[fe[t]]]
    /\ fpc' = [fpc EXCEPT ![t] = "L176"]
    /\ UNCHANGED <<getNext, putNext, freeCount, buckets, fastLists,
                   lpc, fl, fe, fastHistory>>

\* A Get that keeps one entry more than the cap.
SpareCapOffByOne(f) == f <= POOL_SIZE

\* line 177: LoadInt32(&p.freeCount) < _POOL_SIZE
SpareBelowCap(f) == f < POOL_SIZE

\* lines 176-177: e.entry = nil; LoadInt32(&p.freeCount) < _POOL_SIZE
FastGetClear(t) ==
    /\ fpc[t] = "L176"
    /\ entry' = [entry EXCEPT ![fe[t]] = Nil]
    /\ fpc' = [fpc EXCEPT ![t] = IF SpareBelowCap(freeCount) THEN "L178" ELSE "L181"]
    /\ UNCHANGED <<fastCounters, buckets, head, tail, lock, next, nEntries,
                   lpc, fl, fe, fs, fastHistory>>

\* lines 178-179: AddInt32(&p.freeCount, 1); p.free[l].Put(e)
FastGetKeepEntry(t) ==
    /\ fpc[t] = "L178"
    /\ freeCount' = AddInt32(freeCount, 1)
    /\ fpc' = [fpc EXCEPT ![t] = "L179"]
    /\ lpc' = [lpc EXCEPT ![t] = "L218"]
    /\ UNCHANGED <<getNext, putNext, useCount, buckets, fastLists, fl, fe, fs, fastHistory>>

\* line 181: return rv
FastGetReturn(t) ==
    /\ fpc[t] = "L181"
    /\ fHeld' = [fHeld EXCEPT ![fs[t]] = @ + 1]
    /\ FastReturn(t)
    /\ UNCHANGED <<fastCounters, buckets, fastLists, fNextId, fPuts, fGets, fPeakPuts>>

\* ---- FastPool.Put, lines 184-198
Max(a, b) == IF a > b THEN a ELSE b

\* A Put that never finds the pool full.
PoolNeverFull(u) == FALSE

\* A Put that lets one payload more in.
PoolFullOffByOne(u) == u > POOL_SIZE

\* line 185: LoadInt32(&p.useCount) >= _POOL_SIZE
PoolFull(u) == u >= POOL_SIZE

\* lines 184-187: a caller enters Put(s); a full pool drops s and returns.
FastPutLoadUse(t, s) ==
    /\ fpc[t] = "idle"
    /\ fPuts' = fPuts + 1
    /\ fPeakPuts' = Max(fPeakPuts, PutsInFlight + 1)
    /\ IF PoolFull(useCount)
         THEN UNCHANGED <<fpc, fs>>
         ELSE /\ fpc' = [fpc EXCEPT ![t] = "L188"]
              /\ fs' = [fs EXCEPT ![t] = s]
    /\ UNCHANGED <<fastCounters, buckets, fastLists, lpc, fl, fe, fGets>>

\* Put(s) of a payload the caller holds.
FastPutHeld(t) ==
    \E s \in FastIds :
        /\ fHeld[s] > 0
        /\ fHeld' = [fHeld EXCEPT ![s] = @ - 1]
        /\ fNextId' = fNextId
        /\ FastPutLoadUse(t, s)

\* Put(s) of an instance the caller has made itself.
FastPutNew(t) ==
    /\ fNextId' = fNextId + 1
    /\ fHeld' = fHeld
    /\ FastPutLoadUse(t, fNextId + 1)

\* lines 188-189: l := AddUint32(&p.putNext, 1) % p.buckets; p.free[l].Get()
FastPutAdd(t) ==
    /\ fpc[t] = "L188"
    /\ putNext' = AddUint32(putNext, 1)
    /\ fl' = [fl EXCEPT ![t] = putNext' % buckets]
    /\ fpc' = [fpc EXCEPT ![t] = "L189"]
    /\ lpc' = [lpc EXCEPT ![t] = "L201"]
    /\ UNCHANGED <<getNext, useCount, freeCount, buckets, fastLists, fe, fs, fastHistory>>

\* lines 193, 195-196: AddInt32(&p.freeCount, -1); e.entry = s; p.pool[l].Put(e)
FastPutReuse(t) ==
    /\ fpc[t] = "L193"
    /\ freeCount' = AddInt32(freeCount, -1)
    /\ entry' = [entry EXCEPT ![fe[t]] = fs[t]]
    /\ fpc' = [fpc EXCEPT ![t] = "L196"]
    /\ lpc' = [lpc EXCEPT ![t] = "L218"]
    /\ UNCHANGED <<getNext, putNext, useCount, buckets, head, tail, lock, next,
                   nEntries, fl, fe, fs, fastHistory>>

\* line 197: AddInt32(&p.useCount, 1), and Put returns.
FastPutInc(t) ==
    /\ fpc[t] = "L197"
    /\ useCount' = AddInt32(useCount, 1)
    /\ FastReturn(t)
    /\ UNCHANGED <<getNext, putNext, freeCount, buckets, fastLists, fastHistory>>

\* ---------------------------------------------------------- specifications
Init ==
    /\ OnceInit
    /\ RingInit
    /\ FastInit
    /\ hist = <<>>

OnceNext ==
    \/ \E t \in Threads : DoCall(t) /\ UNCHANGED <<ringVars, fastVars, hist>>
    \/ \E t \in Threads : DoLoad(t) /\ UNCHANGED <<ringVars, fastVars, hist>>
    \/ \E t \in Threads : DoAdd(t) /\ UNCHANGED <<ringVars, fastVars, hist>>
    \/ \E t \in Threads : DoInvoke(t) /\ UNCHANGED <<ringVars, fastVars, hist>>
    \/ \E t \in Threads : DoReturn(t) /\ UNCHANGED <<ringVars, fastVars, hist>>
    \/ Reset /\ UNCHANGED <<ringVars, fastVars, hist>>

SpecOnce == Init /\ [][OnceNext]_vars

\* The steps of a thread inside Do and inside the action f.
OnceRun(t) ==
    /\ DoLoad(t) \/ DoAdd(t) \/ DoInvoke(t) \/ DoReturn(t)
    /\ UNCHANGED <<ringVars, fastVars, hist>>

\* Fair scheduling of the goroutines, and an action f that terminates: a
\* thread that can take a step inside Do or f eventually takes one.
SpecOnceLive == SpecOnce /\ \A t \in Threads : WF_vars(OnceRun(t))

\* Concurrent callers of one LocklessPool.
RingNext ==
    \/ \E t \in Threads : rGets < MaxRingGets /\ RingGetCall(t) /\ UNCHANGED <<onceVars, fastVars, hist>>
    \/ \E t \in Threads : RingGetLoad(t) /\ UNCHANGED <<onceVars, fastVars, hist>>
    \/ \E t \in Threads : RingGetSwap(t) /\ UNCHANGED <<onceVars, fastVars, hist>>
    \/ \E t \in Threads : RingGetFactory(t) /\ UNCHANGED <<onceVars, fastVars, hist>>
    \/ \E t \in Threads : RingGetAdvance(t) /\ UNCHANGED <<onceVars, fastVars, hist>>
    \/ \E t \in Threads : rPuts < MaxRingPuts /\ RingPutCallHeld(t) /\ UNCHANGED <<onceVars, fastVars, hist>>
    \/ \E t \in Threads : rPuts < MaxRingPuts /\ RingPutCallNew(t) /\ UNCHANGED <<onceVars, fastVars, hist>>
    \/ \E t \in Threads : RingPutAdd(t) /\ UNCHANGED <<onceVars, fastVars, hist>>
    \/ \E t \in Threads : RingPutStore(t) /\ UNCHANGED <<onceVars, fastVars, hist>>

SpecRing == Init /\ [][RingNext]_vars

\* The record of a call of the single caller, appended when it returns: the
\* operation, the payload put or returned, whether Get made it with the
\* factory, and what the pool looked like when the call started.
RingLogged(t) ==
    IF rpc[t] # "idle" /\ rpc'[t] = "idle"
      THEN Append(hist,
             [op |-> IF rpc[t] = "L259" THEN "Put" ELSE "Get",
              val |-> IF rpc[t] = "L246" THEN rNextId' ELSE re[t],
              fresh |-> rpc[t] = "L246",
              empty |-> rpc[t] # "L250" /\ AllSlotsEmpty,
              aligned |-> IF rpc[t] = "L259"
                            THEN (rPutNext - 1) % POOL_SIZE = rGetNext % POOL_SIZE
                            ELSE rPutNext % POOL_SIZE = rGetNext % POOL_SIZE])
      ELSE hist

\* One caller of one LocklessPool: each call returns before the next starts.
RingSeqNext ==
    \/ rGets < MaxSeqRingGets /\ RingGetCall(1) /\ hist' = RingLogged(1) /\ UNCHANGED <<onceVars, fastVars>>
    \/ RingGetLoad(1) /\ hist' = RingLogged(1) /\ UNCHANGED <<onceVars, fastVars>>
    \/ RingGetSwap(1) /\ hist' = RingLogged(1) /\ UNCHANGED <<onceVars, fastVars>>
    \/ RingGetFactory(1) /\ hist' = RingLogged(1) /\ UNCHANGED <<onceVars, fastVars>>
    \/ RingGetAdvance(1) /\ hist' = RingLogged(1) /\ UNCHANGED <<onceVars, fastVars>>
    \/ rPuts < MaxSeqRingPuts /\ RingPutCallHeld(1) /\ hist' = RingLogged(1) /\ UNCHANGED <<onceVars, fastVars>>
    \/ rPuts < MaxSeqRingPuts /\ RingPutCallNew(1) /\ hist' = RingLogged(1) /\ UNCHANGED <<onceVars, fastVars>>
    \/ RingPutAdd(1) /\ hist' = RingLogged(1) /\ UNCHANGED <<onceVars, fastVars>>
    \/ RingPutStore(1) /\ hist' = RingLogged(1) /\ UNCHANGED <<onceVars, fastVars>>

SpecRingSeq == Init /\ [][RingSeqNext]_vars

\* Concurrent callers of one FastPool.
FastNext ==
    \/ \E t \in Threads : fGets < MaxGets /\ FastGetLoadUse(t) /\ UNCHANGED <<onceVars, ringVars, hist>>
    \/ \E t \in Threads : FastGetFactoryEmpty(t) /\ UNCHANGED <<onceVars, ringVars, hist>>
    \/ \E t \in Threads : FastGetAdd(t) /\ UNCHANGED <<onceVars, ringVars, hist>>
    \/ \E t \in Threads : FastGetFactoryMiss(t) /\ UNCHANGED <<onceVars, ringVars, hist>>
    \/ \E t \in Threads : FastGetDec(t) /\ UNCHANGED <<onceVars, ringVars, hist>>
    \/ \E t \in Threads : FastGetClear(t) /\ UNCHANGED <<onceVars, ringVars, hist>>
    \/ \E t \in Threads : FastGetKeepEntry(t) /\ UNCHANGED <<onceVars, ringVars, hist>>
    \/ \E t \in Threads : FastGetReturn(t) /\ UNCHANGED <<onceVars, ringVars, hist>>
    \/ \E t \in Threads : fPuts < MaxPuts /\ FastPutHeld(t) /\ UNCHANGED <<onceVars, ringVars, hist>>
    \/ \E t \in Threads : fPuts < MaxPuts /\ FastPutNew(t) /\ UNCHANGED <<onceVars, ringVars, hist>>
    \/ \E t \in Threads : FastPutAdd(t) /\ UNCHANGED <<onceVars, ringVars, hist>>
    \/ \E t \in Threads : FastPutReuse(t) /\ UNCHANGED <<onceVars, ringVars, hist>>
    \/ \E t \in Threads : FastPutInc(t) /\ UNCHANGED <<onceVars, ringVars, hist>>
    \/ \E t \in Threads : ListGetPeek(t) /\ UNCHANGED <<onceVars, ringVars, hist>>
    \/ \E t \in Threads : ListGetLock(t) /\ UNCHANGED <<onceVars, ringVars, hist>>
    \/ \E t \in Threads : ListGetHead(t) /\ UNCHANGED <<onceVars, ringVars, hist>>
    \/ \E t \in Threads : ListGetUnlink(t) /\ UNCHANGED <<onceVars, ringVars, hist>>
    \/ \E t \in Threads : ListGetDetach(t) /\ UNCHANGED <<onceVars, ringVars, hist>>
    \/ \E t \in Threads : ListPutLock(t) /\ UNCHANGED <<onceVars, ringVars, hist>>
    \/ \E t \in Threads : ListPutLink(t) /\ UNCHANGED <<onceVars, ringVars, hist>>

SpecFast == Init /\ [][FastNext]_vars

\* The steps of a thread inside a call of LocklessPool.Get / Put.
RingRun(t) ==
    /\ RingGetLoad(t)
       \/ RingGetSwap(t)
       \/ RingGetFactory(t)
       \/ RingGetAdvance(t)
       \/ RingPutAdd(t)
       \/ RingPutStore(t)
    /\ UNCHANGED <<onceVars, fastVars, hist>>

\* The steps of a thread inside a call of FastPool.Get / Put; the factory
\* terminates, its call and return are one step.
FastRun(t) ==
    /\ FastGetFactoryEmpty(t)
       \/ FastGetAdd(t)
       \/ FastGetFactoryMiss(t)
       \/ FastGetDec(t)
       \/ FastGetClear(t)
       \/ FastGetKeepEntry(t)
       \/ FastGetReturn(t)
       \/ FastPutAdd(t)
       \/ FastPutReuse(t)
       \/ FastPutInc(t)
       \/ ListGetPeek(t)
       \/ ListGetLock(t)
       \/ ListGetHead(t)
       \/ ListGetUnlink(t)
       \/ ListGetDetach(t)
       \/ ListPutLock(t)
       \/ ListPutLink(t)
    /\ UNCHANGED <<onceVars, ringVars, hist>>

\* No caller of the ring has called yet / no caller of the FastPool has.
RingUnused == rPuts = 0 /\ rGets = 0

FastUnused == fPuts = 0 /\ fGets = 0

\* Concurrent callers of a pool of either kind: the two kinds of pool share
\* no state, and a run uses one of them.
PoolsNext ==
    \/ \E t \in Threads : FastUnused /\ rGets < MaxRingGets /\ RingGetCall(t) /\ UNCHANGED <<onceVars, fastVars, hist>>
    \/ \E t \in Threads : FastUnused /\ RingGetLoad(t) /\ UNCHANGED <<onceVars, fastVars, hist>>
    \/ \E t \in Threads : FastUnused /\ RingGetSwap(t) /\ UNCHANGED <<onceVars, fastVars, hist>>
    \/ \E t \in Threads : FastUnused /\ RingGetFactory(t) /\ UNCHANGED <<onceVars, fastVars, hist>>
    \/ \E t \in Threads : FastUnused /\ RingGetAdvance(t) /\ UNCHANGED <<onceVars, fastVars, hist>>
    \/ \E t \in Threads : FastUnused /\ rPuts < MaxRingPuts /\ RingPutCallHeld(t) /\ UNCHANGED <<onceVars, fastVars, hist>>
    \/ \E t \in Threads : FastUnused /\ rPuts < MaxRingPuts /\ RingPutCallNew(t) /\ UNCHANGED <<onceVars, fastVars, hist>>
    \/ \E t \in Threads : FastUnused /\ RingPutAdd(t) /\ UNCHANGED <<onceVars, fastVars, hist>>
    \/ \E t \in Threads : FastUnused /\ RingPutStore(t) /\ UNCHANGED <<onceVars, fastVars, hist>>
    \/ \E t \in Threads : RingUnused /\ fGets < MaxLiveGets /\ FastGetLoadUse(t) /\ UNCHANGED <<onceVars, ringVars, hist>>
    \/ \E t \in Threads : RingUnused /\ FastGetFactoryEmpty(t) /\ UNCHANGED <<onceVars, ringVars, hist>>
    \/ \E t \in Threads : RingUnused /\ FastGetAdd(t) /\ UNCHANGED <<onceVars, ringVars, hist>>
    \/ \E t \in Threads : RingUnused /\ FastGetFactoryMiss(t) /\ UNCHANGED <<onceVars, ringVars, hist>>
    \/ \E t \in Threads : RingUnused /\ FastGetDec(t) /\ UNCHANGED <<onceVars, ringVars, hist>>
    \/ \E t \in Threads : RingUnused /\ FastGetClear(t) /\ UNCHANGED <<onceVars, ringVars, hist>>
    \/ \E t \in Threads : RingUnused /\ FastGetKeepEntry(t) /\ UNCHANGED <<onceVars, ringVars, hist>>
    \/ \E t \in Threads : RingUnused /\ FastGetReturn(t) /\ UNCHANGED <<onceVars, ringVars, hist>>
    \/ \E t \in Threads : RingUnused /\ fPuts < MaxLivePuts /\ FastPutHeld(t) /\ UNCHANGED <<onceVars, ringVars, hist>>
    \/ \E t \in Threads : RingUnused /\ fPuts < MaxLivePuts /\ FastPutNew(t) /\ UNCHANGED <<onceVars, ringVars, hist>>
    \/ \E t \in Threads : RingUnused /\ FastPutAdd(t) /\ UNCHANGED <<onceVars, ringVars, hist>>
    \/ \E t \in Threads : RingUnused /\ FastPutReuse(t) /\ UNCHANGED <<onceVars, ringVars, hist>>
    \/ \E t \in Threads : RingUnused /\ FastPutInc(t) /\ UNCHANGED <<onceVars, ringVars, hist>>
    \/ \E t \in Threads : RingUnused /\ ListGetPeek(t) /\ UNCHANGED <<onceVars, ringVars, hist>>
    \/ \E t \in Threads : RingUnused /\ ListGetLock(t) /\ UNCHANGED <<onceVars, ringVars, hist>>
    \/ \E t \in Threads : RingUnused /\ ListGetHead(t) /\ UNCHANGED <<onceVars, ringVars, hist>>
    \/ \E t \in Threads : RingUnused /\ ListGetUnlink(t) /\ UNCHANGED <<onceVars, ringVars, hist>>
    \/ \E t \in Threads : RingUnused /\ ListGetDetach(t) /\ UNCHANGED <<onceVars, ringVars, hist>>
    \/ \E t \in Threads : RingUnused /\ ListPutLock(t) /\ UNCHANGED <<onceVars, ringVars, hist>>
    \/ \E t \in Threads : RingUnused /\ ListPutLink(t) /\ UNCHANGED <<onceVars, ringVars, hist>>

\* Fair scheduling of the goroutines: a thread that can take a step inside
\* a call eventually takes one.
SpecPoolsLive ==
    /\ Init
    /\ [][PoolsNext]_vars
    /\ \A t \in Threads : WF_vars(RingRun(t)) /\ WF_vars(FastRun(t))

\* The record of a call of the single caller, appended when it returns: the
\* operation, the payload put or returned, whether Get made it with the
\* factory, and whether Put stored it.  A Put that finds the pool full
\* returns in its first step.
FastLogged(t) ==
    IF fpc[t] = "idle" /\ fpc'[t] = "idle" /\ fPuts' # fPuts
      THEN Append(hist,
             [op |-> "Put",
              val |-> IF fNextId' # fNextId THEN fNextId'
                      ELSE CHOOSE p \in FastIds : fHeld'[p] # fHeld[p],
              fresh |-> FALSE,
              kept |-> FALSE])
    ELSE IF fpc[t] # "idle" /\ fpc'[t] = "idle"
      THEN Append(hist,
             [op |-> IF fpc[t] \in PutPcs THEN "Put" ELSE "Get",
              val |-> IF fpc[t] \in {"L167", "L172"} THEN fNextId' ELSE fs[t],
              fresh |-> fpc[t] \in {"L167", "L172"},
              kept |-> fpc[t] \in PutPcs])
    ELSE hist

\* One caller of one FastPool: each call returns before the next starts.
\* Both cursors advance once per payload stored and once per payload taken,
\* so the Get of a single caller always reaches the shard of the oldest
\* payload: line 172 (the list is empty though useCount > 0) is not reachable
\* and has no step here.
FastSeqNext ==
    \/ fGets < MaxSeqGets /\ FastGetLoadUse(1) /\ hist' = FastLogged(1) /\ UNCHANGED <<onceVars, ringVars>>
    \/ FastGetFactoryEmpty(1) /\ hist' = FastLogged(1) /\ UNCHANGED <<onceVars, ringVars>>
    \/ FastGetAdd(1) /\ hist' = FastLogged(1) /\ UNCHANGED <<onceVars, ringVars>>
    \/ FastGetDec(1) /\ hist' = FastLogged(1) /\ UNCHANGED <<onceVars, ringVars>>
    \/ FastGetClear(1) /\ hist' = FastLogged(1) /\ UNCHANGED <<onceVars, ringVars>>
    \/ FastGetKeepEntry(1) /\ hist' = FastLogged(1) /\ UNCHANGED <<onceVars, ringVars>>
    \/ FastGetReturn(1) /\ hist' = FastLogged(1) /\ UNCHANGED <<onceVars, ringVars>>
    \/ fPuts < MaxSeqPuts /\ FastPutHeld(1) /\ hist' = FastLogged(1) /\ UNCHANGED <<onceVars, ringVars>>
    \/ fPuts < MaxSeqPuts /\ FastPutNew(1) /\ hist' = FastLogged(1) /\ UNCHANGED <<onceVars, ringVars>>
    \/ FastPutAdd(1) /\ hist' = FastLogged(1) /\ UNCHANGED <<onceVars, ringVars>>
    \/ FastPutReuse(1) /\ hist' = FastLogged(1) /\ UNCHANGED <<onceVars, ringVars>>
    \/ FastPutInc(1) /\ hist' = FastLogged(1) /\ UNCHANGED <<onceVars, ringVars>>
    \/ ListGetPeek(1) /\ hist' = FastLogged(1) /\ UNCHANGED <<onceVars, ringVars>>
    \/ ListGetLock(1) /\ hist' = FastLogged(1) /\ UNCHANGED <<onceVars, ringVars>>
    \/ ListGetHead(1) /\ hist' = FastLogged(1) /\ UNCHANGED <<onceVars, ringVars>>
    \/ ListGetUnlink(1) /\ hist' = FastLogged(1) /\ UNCHANGED <<onceVars, ringVars>>
    \/ ListGetDetach(1) /\ hist' = FastLogged(1) /\ UNCHANGED <<onceVars, ringVars>>
    \/ ListPutLock(1) /\ hist' = FastLogged(1) /\ UNCHANGED <<onceVars, ringVars>>
    \/ ListPutLink(1) /\ hist' = FastLogged(1) /\ UNCHANGED <<onceVars, ringVars>>

SpecFastSeq == Init /\ [][FastSeqNext]_vars

\* ------------------------------------------------------------------- Once
\* C5: between construction (or a Reset made while no Do was in flight) and
\* the next Reset, the action is invoked at most once, and once every Do call
\* issued in that period has returned (at least one was issued) it has been
\* invoked exactly once.
OnceExactlyOnce ==
    clean => /\ fCalls <= 1
             /\ (doCalls >= 1 /\ NoDoInFlight) => fCalls = 1

\* Two or more Do calls issued after a Reset that followed the return of all
\* earlier Do calls have all returned, and the action ran once more.
OnceSecondGenerationDone ==
    /\ resets = 1
    /\ clean
    /\ doRets >= 2
    /\ NoDoInFlight
    /\ fCalls = 1
    /\ fRets = 1

\* C10: no call to Do returns before the one call to f has returned (the doc
\* comment of Do, lines 104-105).
DoReturnsAfterAction == (clean /\ doRets >= 1) => fRets >= 1

\* A thread is inside a Do that it called from inside the running action.
Reentered(t) == Len(ostack[t]) >= 2

RingNoDoubleIssue == \A p \in RingIds : rHeld[p] <= 1

\* Two concurrent Gets have probed the same slot; one swapped the payload out
\* and the other found the slot empty.
RingGetsRaceOnOneSlot ==
    \E t1, t2 \in Threads :
        /\ rpc[t1] = "L250"
        /\ rpc[t2] = "L246"
        /\ rl[t1] = rl[t2]

\* C8: as long as no Put has been called, no Get obtains a pooled payload,
\* every slot is empty and the fetch cursor is where NewLocklessPool left it.
RingGetWithoutPutIsFresh ==
    rPuts = 0 => /\ rRecycled = 0
                 /\ \A t \in Threads : rpc[t] # "L250"
                 /\ AllSlotsEmpty
                 /\ rGetNext = 0

\* Without any Put, two Gets have returned factory payloads and a third is
\* about to.
RingThreeGetsNoPut ==
    /\ rPuts = 0
    /\ rNextId >= 2
    /\ \E t \in Threads : rpc[t] = "L246"

\* C7 as stated: single-threaded, whenever no slot holds a payload, Put(x)
\* followed at once by Get returns x.
RingRoundTripWhenEmpty ==
    \A i \in 1..(Len(hist) - 1) :
        (hist[i].op = "Put" /\ hist[i].empty /\ hist[i + 1].op = "Get")
            => hist[i + 1].val = hist[i].val

\* C7: single-threaded, whenever no slot holds a payload and the store and
\* fetch cursors select the same slot, Put(x) followed at once by Get
\* returns x.
RingRoundTripWhenEmptyAligned ==
    \A i \in 1..(Len(hist) - 1) :
        (hist[i].op = "Put" /\ hist[i].empty /\ hist[i].aligned
         /\ hist[i + 1].op = "Get")
            => (hist[i + 1].val = hist[i].val /\ ~hist[i + 1].fresh)

\* A round trip on a pool that has been used before and is empty again.
RingRoundTripAfterUse ==
    \E i \in 3..(Len(hist) - 1) :
        /\ hist[i].op = "Put"
        /\ hist[i].empty
        /\ hist[i].aligned
        /\ hist[i + 1].op = "Get"
        /\ hist[i + 1].val = hist[i].val

\* ------------------------------------------------------------------ pools
\* A thread is at Lock() of a poolList that some thread holds.
WaitsForLock(t) ==
    /\ lpc[t] \in {"L205", "L218"}
    /\ lock[CurList(t)] # 0

\* The thread is between Lock() and Unlock() of the poolList k.
InCriticalSection(t, k) ==
    /\ lpc[t] \in {"L206", "L211", "L219"}
    /\ CurList(t) = k

\* C12: every started Get and Put of either pool returns; the only step a
\* thread ever waits at is the Lock() of one poolList, and then another
\* thread is inside that list's critical section, which it leaves by its
\* next steps.
PoolCallsReturn ==
    /\ [](\A t \in Threads :
            /\ WaitsForLock(t) =>
                  /\ lock[CurList(t)] \in Threads \ {t}
                  /\ InCriticalSection(lock[CurList(t)], CurList(t))
            /\ (fpc[t] # "idle" /\ ~WaitsForLock(t)) => ENABLED FastRun(t)
            /\ rpc[t] # "idle" => ENABLED RingRun(t)
            /\ fpc[t] = "idle" => \A k \in Lists : lock[k] # t)
    /\ \A t \in Threads : (fpc[t] # "idle") ~> (fpc[t] = "idle")
    /\ \A t \in Threads : (rpc[t] # "idle") ~> (rpc[t] = "idle")

\* One Put waits at Lock() of an active list while another Put is linking
\* its entry to that list.
PutWaitsForShardLock ==
    \E t, u \in Threads :
        /\ fpc[t] = "L196" /\ lpc[t] = "L218"
        /\ fpc[u] = "L196" /\ lpc[u] = "L219"
        /\ CurList(t) = CurList(u)

\* ---------------------------------------------------------------- FastPool
\* C1: no payload is held by two callers of the FastPool at once: a Get
\* returns an instance only if its last holder has Put it since.
FastNoDoubleIssue == \A p \in FastIds : fHeld[p] <= 1

\* Two concurrent Gets work on the active list of one shard: one is inside
\* the critical section with the head entry, the other waits for the lock.
FastGetsRaceOnOneShard ==
    \E t1, t2 \in Threads :
        /\ fpc[t1] = "L170" /\ lpc[t1] = "L211"
        /\ fpc[t2] = "L170" /\ lpc[t2] = "L205"
        /\ fl[t1] = fl[t2]

\* C3 as stated: the active lists never hold more than _POOL_SIZE payloads
\* plus the number of Put calls in flight in that state.
FastResidentWithinInFlight == TrueCount <= POOL_SIZE + PutsInFlight

\* C3: the active lists never hold more than _POOL_SIZE - 1 payloads plus the
\* largest number of Put calls that have been in flight at the same time.
FastResidentWithinPeak == TrueCount <= POOL_SIZE - 1 + fPeakPuts

\* Two Puts that passed the capacity test together have both returned and
\* left the active lists one payload over _POOL_SIZE.
FastOverCapacityAtRest ==
    /\ FastQuiescent
    /\ fPeakPuts = 2
    /\ TrueCount = POOL_SIZE + 1

\* C4: when no Get and no Put is in flight, useCount is the number of
\* payloads on the active lists.
FastCounterExactAtRest == FastQuiescent => useCount = TrueCount

\* The pool is at rest after overlapping Puts and after Gets that recycled
\* an entry, and still holds a payload.
FastAtRestAfterRaces ==
    /\ FastQuiescent
    /\ fPeakPuts >= 2
    /\ fGets >= 2
    /\ freeCount >= 1
    /\ TrueCount >= 1

FastPoolState == <<getNext, putNext, useCount, freeCount, head, tail, lock, entry, next>>

\* C9: a Get that reads useCount as 0 goes to line 167 and returns a fresh
\* factory instance; neither step changes a cursor, a counter, a list, an
\* entry or a lock.
FastGetOnEmptyChangesNothing ==
    [][\A t \in Threads :
         /\ (fpc[t] = "idle" /\ fpc'[t] \in GetPcs /\ useCount = 0)
               => (fpc'[t] = "L167" /\ UNCHANGED FastPoolState)
         /\ (fpc[t] = "L167" /\ fpc'[t] # "L167")
               => /\ fpc'[t] = "idle"
                  /\ UNCHANGED FastPoolState
                  /\ fNextId' = fNextId + 1
                  /\ fHeld'[fNextId'] = 1]_vars

\* A Get is on the fast path (it read useCount as 0) while a Put that has
\* already linked its payload has not yet counted it.
FastGetOnEmptyDuringPut ==
    \E t, u \in Threads :
        /\ fpc[t] = "L167"
        /\ fpc[u] = "L197"
        /\ TrueCount >= 1

\* The hist of a single caller is n Puts followed only by Gets.
LeadingPuts ==
    Cardinality({i \in 1..Len(hist) : \A j \in 1..i : hist[j].op = "Put"})

PutsThenGets == \A i \in (LeadingPuts + 1)..Len(hist) : hist[i].op = "Get"

Min(a, b) == IF a < b THEN a ELSE b

\* C6: single-threaded, from a new pool, after n Puts of distinct payloads
\* min(n, _POOL_SIZE) payloads are on the active lists; m Gets made next
\* return min(n, _POOL_SIZE, m) of the payloads put, each at most once, and
\* otherwise payloads made by the factory.
FastPutsThenGets ==
    PutsThenGets =>
        LET n == LeadingPuts
            m == Len(hist) - n
            put == {hist[i].val : i \in 1..n}
            recycled == {i \in (n + 1)..Len(hist) : ~hist[i].fresh}
        IN  /\ Cardinality(put) = n
            /\ (m = 0 /\ FastQuiescent) => TrueCount = Min(n, POOL_SIZE)
            /\ Cardinality(recycled) = Min(Min(n, POOL_SIZE), m)
            /\ \A i \in recycled : hist[i].val \in put
            /\ \A i, j \in recycled : hist[i].val = hist[j].val => i = j
            /\ \A i \in (n + 1)..Len(hist) : hist[i].fresh => hist[i].val \notin put

\* More Puts than the pool keeps, then more Gets than it holds: the last
\* Get had to call the factory.
FastOverfilledThenDrained ==
    /\ PutsThenGets
    /\ LeadingPuts > POOL_SIZE
    /\ Len(hist) - LeadingPuts > POOL_SIZE
    /\ hist[Len(hist)].fresh
    /\ ~hist[LeadingPuts + 1].fresh

\* The active lists p.pool[0 .. buckets-1], and the payloads on one of them,
\* head first.
ActiveLists == {PoolList(i) : i \in 0..(buckets - 1)}

ListPayloads(k) == [i \in 1..Len(ListEntries(k)) |-> entry[ListEntries(k)[i]]]

\* C13: the payloads on a shard's active list change only by the append of
\* the payload of a Put at the tail and by the removal of the payload at the
\* head, which the removing Get takes; so they leave in the order they were
\* appended, and the list neither loses nor repeats one.
FastShardFifo ==
    /\ [][\A k \in ActiveLists :
            \/ ListPayloads(k)' = ListPayloads(k)
            \/ \E t \in Threads :
                  /\ lpc[t] = "L219" /\ CurList(t) = k
                  /\ ListPayloads(k)' = Append(ListPayloads(k), fs[t])
            \/ \E t \in Threads :
                  /\ lpc[t] = "L211" /\ CurList(t) = k
                  /\ ListPayloads(k) # <<>>
                  /\ entry[fe[t]] = Head(ListPayloads(k))
                  /\ ListPayloads(k)' = Tail(ListPayloads(k))]_vars
    /\ [](\A k \in ActiveLists :
            \A i, j \in 1..Len(ListPayloads(k)) :
                /\ ListPayloads(k)[i] # Nil
                /\ ListPayloads(k)[i] = ListPayloads(k)[j] => i = j)
    /\ [](\A t \in Threads :
            fpc[t] \in {"L176", "L178", "L179", "L181"} => fs[t] # Nil)

\* A Get has taken the head of an active list that held two payloads and is
\* about to return the older one; the younger one is the new head.
FastGetTookOlderOfTwo ==
    \E t \in Threads :
        /\ fpc[t] = "L181"
        /\ head[PoolList(fl[t])] # Nil
        /\ entry[head[PoolList(fl[t])]] > fs[t]

\* The poolLists a thread holds the lock of.
LocksHeldBy(t) == {k \in Lists : lock[k] = t}

\* C14: no thread holds the locks of two poolLists at once, a thread holds a
\* lock only between Lock() and Unlock() inside poolList.Get / Put, and a
\* thread about to invoke the factory (lines 167 and 172) holds none.
FastLockDiscipline ==
    \A t \in Threads :
        /\ Cardinality(LocksHeldBy(t)) <= 1
        /\ \A k \in LocksHeldBy(t) : InCriticalSection(t, k)
        /\ fpc[t] \in {"L167", "L172"} => LocksHeldBy(t) = {}

\* A Get is about to invoke the factory after it found its shard's list
\* empty, while another thread holds the lock of that very list.
FactoryCallBesideLockedShard ==
    \E t, u \in Threads :
        /\ t # u
        /\ fpc[t] = "L172"
        /\ lock[PoolList(fl[t])] = u

\* C15: a Get that read useCount as nonzero advances the Get cursor by one
\* and changes nothing else; in poolList.Get up to the test of head it touches
\* only the lock of the active list of the shard it selected; and when that
\* list gave nil it returns a fresh factory instance and changes no cursor,
\* counter, list, entry or lock: useCount is not decremented.
FastGetMissChangesCursorOnly ==
    [][\A t \in Threads :
         /\ (fpc[t] = "L169" /\ fpc'[t] # "L169")
               => /\ getNext' = getNext + 1
                  /\ fl'[t] = getNext' % buckets
                  /\ UNCHANGED <<putNext, useCount, freeCount, head, tail, lock, entry, next>>
         /\ (fpc[t] = "L170" /\ lpc[t] \in {"L201", "L205", "L206"} /\ lpc'[t] # lpc[t])
               => /\ UNCHANGED <<getNext, putNext, useCount, freeCount, head, tail, entry, next>>
                  /\ \A k \in Lists \ {PoolList(fl[t])} : lock'[k] = lock[k]
         /\ (fpc[t] = "L172" /\ fpc'[t] # "L172")
               => /\ fpc'[t] = "idle"
                  /\ UNCHANGED FastPoolState
                  /\ fNextId' = fNextId + 1
                  /\ fHeld'[fNextId'] = 1]_vars

\* A Get is about to return a factory instance because the list of its shard
\* is empty, while useCount is nonzero and another shard holds a payload.
FastGetMissesBesideFullShard ==
    \E t \in Threads :
        /\ fpc[t] = "L172"
        /\ head[PoolList(fl[t])] = Nil
        /\ useCount >= 1
        /\ TrueCount >= 1

\* C16: the store cursor of the ring is the number of Puts that have taken
\* their slot index, and a Put then overwrites the slot of that index; the
\* fetch cursor is the number of Gets that obtained a pooled payload and
\* completed their advance, and a Get that found its slot empty leaves it.
RingCursorAccounting ==
    /\ [](/\ rPutNext = rPuts - Cardinality({t \in Threads : rpc[t] = "L258"})
          /\ rGetNext = rRecycled)
    /\ [][\A t \in Threads :
            /\ (rpc[t] = "L258" /\ rpc'[t] # "L258")
                  => (rPutNext' = rPutNext + 1 /\ rl'[t] = rPutNext % POOL_SIZE)
            /\ (rpc[t] = "L259" /\ rpc'[t] # "L259")
                  => slots' = [slots EXCEPT ![rl[t]] = re[t]]
            /\ (rpc[t] = "L246" /\ rpc'[t] # "L246")
                  => rGetNext' = rGetNext]_vars

\* The store cursor has gone round the ring, a Get has taken a pooled payload
\* and another one has found its slot empty.
RingCursorsAfterWrapAndMiss ==
    /\ rPutNext > POOL_SIZE
    /\ rGetNext >= 1
    /\ \E t \in Threads : rpc[t] = "L246"

\* The entries linked on some poolList.
LinkedEntries == UNION {{ListEntries(k)[i] : i \in 1..Len(ListEntries(k))} : k \in Lists}

\* C17 as stated: after a pop, Get keeps the emptied entry exactly when the
\* spare list of its own shard holds fewer than _POOL_SIZE entries.
FastSpareKeptByShardSize ==
    [][\A t \in Threads :
         (fpc[t] = "L176" /\ fpc'[t] # "L176")
            => (fpc'[t] = "L178" <=> Len(ListEntries(FreeList(fl[t]))) < POOL_SIZE)]_vars

\* C17: after a pop, Get keeps the emptied entry exactly when the pool-wide
\* counter freeCount reads below _POOL_SIZE at line 177, whatever the spare
\* list of its own shard holds; a kept entry is linked at the tail of the
\* spare list of the same shard, a discarded one is on no list.
FastSpareKeptByGlobalCount ==
    [][\A t \in Threads :
         /\ (fpc[t] = "L176" /\ fpc'[t] # "L176")
               => /\ fpc'[t] = (IF freeCount < POOL_SIZE THEN "L178" ELSE "L181")
                  /\ fe[t] \notin LinkedEntries'
                  /\ entry'[fe[t]] = Nil
         /\ (fpc[t] = "L178" /\ fpc'[t] # "L178")
               => (freeCount' = freeCount + 1 /\ CurList(t)' = FreeList(fl[t]))
         /\ (fpc[t] = "L179" /\ fpc'[t] # "L179")
               => /\ fpc'[t] = "L181"
                  /\ tail'[FreeList(fl[t])] = fe[t]
                  /\ ListEntries(FreeList(fl[t]))' = Append(ListEntries(FreeList(fl[t])), fe[t])]_vars

\* A Get discards the emptied entry because freeCount is at _POOL_SIZE,
\* while the spare list of its own shard is empty.
FastSpareDiscardedBesideEmptyList ==
    \E t \in Threads :
        /\ fpc[t] = "L181"
        /\ fe[t] \notin LinkedEntries
        /\ freeCount >= POOL_SIZE
        /\ head[FreeList(fl[t])] = Nil

\* The calls of hist that stored a payload, and those that took one out.
KeptPut(h) == h.op = "Put" /\ h.kept

RecycledGet(h) == h.op = "Get" /\ ~h.fresh

KeptBefore(i) == Len(SelectSeq(SubSeq(hist, 1, i - 1), KeptPut))

RecycledBefore(i) == Len(SelectSeq(SubSeq(hist, 1, i - 1), RecycledGet))

\* C18: single-threaded, from a new FastPool, for every sequence of Puts and
\* Gets: a Get never finds the list of its shard empty after it read useCount
\* as nonzero (line 172 is not reached); it calls the factory only when every
\* payload stored so far has been taken out; and the payloads the Gets take
\* out are the payloads stored, in the order of their Puts.
FastSeqGlobalFifo ==
    LET kept == SelectSeq(hist, KeptPut)
        rec == SelectSeq(hist, RecycledGet)
    IN  /\ fpc[1] # "L172"
        /\ Len(rec) <= Len(kept)
        /\ \A i \in 1..Len(rec) : rec[i].val = kept[i].val
        /\ \A i \in 1..Len(hist) :
              (hist[i].op = "Get" /\ hist[i].fresh) => KeptBefore(i) = RecycledBefore(i)
        /\ fpc[1] = "idle" => /\ useCount = Len(kept) - Len(rec)
                              /\ TrueCount = useCount

\* Puts and Gets alternate irregularly: a Put was dropped by a full pool, a
\* Get found the pool empty, and after both a Get returned the third payload
\* taken out of the pool.
FastSeqMixedRun ==
    /\ fpc[1] = "idle"
    /\ \E i, j \in 1..Len(hist) :
          /\ hist[i].op = "Put" /\ ~hist[i].kept
          /\ hist[j].op = "Get" /\ hist[j].fresh
          /\ Len(hist) > i /\ Len(hist) > j
    /\ RecycledGet(hist[Len(hist)])
    /\ RecycledBefore(Len(hist)) = 2

\* The calls of the ring's hist that are Puts.
IsPut(h) == h.op = "Put"

PutsBefore(i) == Len(SelectSeq(SubSeq(hist, 1, i - 1), IsPut))

\* After each of the calls so far, at most _POOL_SIZE payloads were put and
\* not yet retrieved: no Put overwrote an unretrieved payload.
NoOverwrite ==
    \A i \in 1..Len(hist) : PutsBefore(i + 1) - RecycledBefore(i + 1) <= POOL_SIZE

\* C19: single-threaded, from a new LocklessPool, as long as no Put has
\* overwritten an unretrieved payload: a Get makes a fresh payload only when
\* every slot is empty, and exactly when nothing put is unretrieved; the
\* payloads the Gets take out are the payloads put, in the order of their
\* Puts; and between calls the filled slots are those of the indices fetch
\* cursor .. store cursor - 1 modulo _POOL_SIZE.
RingSeqFifo ==
    NoOverwrite =>
        LET puts == SelectSeq(hist, IsPut)
            rec == SelectSeq(hist, RecycledGet)
        IN  /\ Len(rec) <= Len(puts)
            /\ \A i \in 1..Len(rec) : rec[i].val = puts[i].val
            /\ \A i \in 1..Len(hist) :
                  hist[i].op = "Get" =>
                      /\ hist[i].fresh <=> PutsBefore(i) = RecycledBefore(i)
                      /\ hist[i].fresh => hist[i].empty
            /\ rpc[1] = "idle" =>
                  /\ rGetNext <= rPutNext
                  /\ \A l \in DOMAIN slots :
                        slots[l] # Nil <=>
                            \E c \in rGetNext..(rPutNext - 1) : c % POOL_SIZE = l

\* The store cursor has gone round the ring without an overwrite; Gets have
\* taken two payloads out and one Get found every slot empty.
RingSeqWrappedRun ==
    /\ NoOverwrite
    /\ rpc[1] = "idle"
    /\ rPutNext > POOL_SIZE
    /\ rGetNext >= 2
    /\ \E i \in 1..Len(hist) : hist[i].op = "Get" /\ hist[i].fresh

\* C20 as stated: useCount is never negative.
FastUseCountNonNegative == useCount >= 0

\* The Puts that have linked their payload and not yet counted it.
PutsLinkedUncounted == Cardinality({t \in Threads : fpc[t] = "L197"})

\* C20: useCount is never below minus the number of Puts in flight that
\* have linked their payload (line 196) and not yet counted it (line 197);
\* when no Put is in flight it is not negative.
FastUseCountAboveUncounted == useCount + PutsLinkedUncounted >= 0

\* A Get has counted out the payload of a Put that has not counted it in:
\* useCount is negative.
FastUseCountNegative ==
    /\ useCount = -1
    /\ PutsLinkedUncounted = 1

====
